---- MODULE Spec2Model ----
(***************************************************************************)
(* A model of redzer_automate.py: the project-initialization workflow.     *)
(*                                                                         *)
(* The state is the process (its position, its locals, its log, its exit   *)
(* status), the configuration file it is given, and the filesystem tree    *)
(* below the project directory  Path(config['project_dir']) / project_name.*)
(* Paths are sequences of segments relative to that directory: <<>> is the *)
(* project directory itself.  Every filesystem entry carries the number of *)
(* the run that created it ("gen"), so that an entry recreated under the   *)
(* same name can be told from the entry that was there before.             *)
(* The process environment is taken to define PATH (line 214).             *)
(***************************************************************************)
EXTENDS Naturals, Sequences, FiniteSets

VARIABLES
    pc,            \* position of the process in the script
    run,           \* number of the current invocation of the script
    configExists,  \* whether the configuration path names a file
    configFile,    \* the mapping the configuration file holds
    platform,      \* "nt" or "posix": the newline convention of text files
    fs,            \* the tree below the project directory: path -> entry
    before,        \* fs as it was when the current invocation started
    config,        \* local of __main__ / initialize_project
    project_name,  \* local of initialize_project (line 182)
    venv_dir,      \* local of initialize_project (line 185), relative
    log,           \* records emitted through logging, this invocation
    issued,        \* calls of subprocess.run, this invocation: [cmd, rc]
    err,           \* exception that ended the invocation, or "none"
    exitCode,      \* exit status passed to exit(), or 0
    setupTrees     \* tree left by each completed create_directories call

vars == <<pc, run, configExists, configFile, platform, fs, before, config, project_name,
          venv_dir, log, issued, err, exitCode, setupTrees>>

----------------------------------------------------------------------------
(* Bounds *)

\* number of invocations of the script on the same target
MaxRuns == 2

----------------------------------------------------------------------------
(* Configuration *)

\* the mapping without fields: also the value of config before it is assigned
NoConfig == [k \in {} |-> ""]

Keys == {"project_name", "project_dir", "venv_dir", "requirements_file"}

ProjectNames == {"redzer", "other"}

ConfigValue(k, name) ==
    CASE k = "project_name"      -> name
      [] k = "project_dir"       -> "root"
      [] k = "venv_dir"          -> "venv"
      [] k = "requirements_file" -> "requirements.txt"

\* the mappings yaml.safe_load can return: any subset of the four fields
Configs ==
    { [k \in ks |-> ConfigValue(k, name)] : ks \in SUBSET Keys, name \in ProjectNames }

HasKey(c, k) == k \in DOMAIN c

----------------------------------------------------------------------------
(* Text files: open(path, 'w') / open(path, 'r') translate newlines *)

setup_content           == <<"s", "LF", "s", "LF">>
redzer_spec_content     == <<"p", "LF">>
redzer_installer_content == <<"i", "LF", "i", "LF", "i", "LF">>

RECURSIVE EncodeText(_, _)
EncodeText(s, plat) ==
    IF s = <<>> THEN <<>>
    ELSE (IF Head(s) = "LF" /\ plat = "nt" THEN <<"CR", "LF">> ELSE <<Head(s)>>)
         \o EncodeText(Tail(s), plat)

RECURSIVE DecodeText(_)
DecodeText(b) ==
    IF b = <<>> THEN <<>>
    ELSE IF Head(b) = "CR"
         THEN <<"LF">> \o DecodeText(IF Len(b) > 1 /\ b[2] = "LF"
                                       THEN Tail(Tail(b)) ELSE Tail(b))
         ELSE <<Head(b)>> \o DecodeText(Tail(b))

----------------------------------------------------------------------------
(* Filesystem *)

NoEntry == [kind |-> "none", content |-> <<>>, gen |-> 0]
DirEntry(g) == [kind |-> "dir", content |-> <<>>, gen |-> g]
FileEntry(bytes, g) == [kind |-> "file", content |-> bytes, gen |-> g]

\* create_directories without the mkdir of line 51
Subdirs_no_tests == <<"modules", "services", "caching", "templates">>

Subdirs == <<"modules", "services", "caching", "tests", "templates">>

\* the build-spec template named after the configured project
SpecTemplateName_named == project_name \o "_template.spec"

SetupTemplateName     == "setup_template.py"
SpecTemplateName      == "redzer_template.spec"
InstallerTemplateName == "redzer_installer_template.iss"
SetupName             == "setup.py"
SpecName              == "redzer.spec"
InstallerName         == "redzer_installer.iss"

\* the names the build-spec and installer-script files would have if they
\* followed the configured project name
NamedSpecTemplate(name)      == name \o "_template.spec"
NamedInstallerTemplate(name) == name \o "_installer_template.iss"
NamedSpec(name)              == name \o ".spec"
NamedInstaller(name)         == name \o "_installer.iss"

Range(s) == { s[i] : i \in DOMAIN s }

AllPaths ==
    {<<>>}
    \cup { <<d>> : d \in Range(Subdirs) }
    \cup { <<"templates", SetupTemplateName>> }
    \cup { <<"templates", NamedSpecTemplate(n)>> : n \in ProjectNames }
    \cup { <<"templates", NamedInstallerTemplate(n)>> : n \in ProjectNames }
    \cup { <<SetupName>> }
    \cup { <<NamedSpec(n)>> : n \in ProjectNames }
    \cup { <<NamedInstaller(n)>> : n \in ProjectNames }
    \cup { <<"venv">>, <<"stray.txt">>, <<"extra">>, <<"modules", "old.py">> }

Parent(p) == SubSeq(p, 1, Len(p) - 1)

IsUnder(p, q) == Len(q) >= Len(p) /\ SubSeq(q, 1, Len(p)) = p

EmptyFs == [p \in AllPaths |-> NoEntry]

\* what the target can hold before the first invocation
PriorTrees ==
    { EmptyFs,
      [EmptyFs EXCEPT ![<<>>] = DirEntry(0)],
      [EmptyFs EXCEPT ![<<>>] = DirEntry(0),
                      ![<<"stray.txt">>] = FileEntry(<<"x">>, 0),
                      ![<<"modules">>] = DirEntry(0),
                      ![<<"modules", "old.py">>] = FileEntry(<<"y", "LF">>, 0)],
      [EmptyFs EXCEPT ![<<>>] = DirEntry(0),
                      ![<<"extra">>] = DirEntry(0),
                      ![<<"venv">>] = DirEntry(0),
                      ![<<SetupName>>] = FileEntry(<<"o">>, 0)] }

Exists(f, p) == f[p].kind # "none"

\* a filesystem call either yields a tree or raises
Ok(f) == [fs |-> f, err |-> "none"]
Raise(r, e) == [r EXCEPT !.err = e]

\* a removal that unlinks the directories and leaves the files behind
rmtree_dirs_only(f, p) ==
    [q \in AllPaths |-> IF IsUnder(p, q) /\ f[q].kind = "dir" THEN NoEntry ELSE f[q]]

\* shutil.rmtree(p)
rmtree(f, p) == [q \in AllPaths |-> IF IsUnder(p, q) THEN NoEntry ELSE f[q]]

\* Path.mkdir() of an entry below the project directory
mkdir(r, p, g) ==
    IF r.err # "none" THEN r
    ELSE IF Exists(r.fs, p) THEN Raise(r, "FileExistsError")
    ELSE IF r.fs[Parent(p)].kind # "dir" THEN Raise(r, "FileNotFoundError")
    ELSE Ok([r.fs EXCEPT ![p] = DirEntry(g)])

\* project_dir.mkdir(parents=True): the missing ancestors are created too
mkdir_parents(r, g) ==
    IF r.err # "none" THEN r
    ELSE IF Exists(r.fs, <<>>) THEN Raise(r, "FileExistsError")
    ELSE Ok([r.fs EXCEPT ![<<>>] = DirEntry(g)])

RECURSIVE mkdir_all(_, _, _)
mkdir_all(r, names, g) ==
    IF names = <<>> THEN r
    ELSE mkdir_all(mkdir(r, <<Head(names)>>, g), Tail(names), g)

\* write_file(filepath, content): open(filepath, 'w') truncates or creates
write_file(r, p, content, plat, g) ==
    IF r.err # "none" THEN r
    ELSE IF r.fs[Parent(p)].kind # "dir" THEN Raise(r, "FileNotFoundError")
    ELSE IF r.fs[p].kind = "dir" THEN Raise(r, "IsADirectoryError")
    ELSE Ok([r.fs EXCEPT ![p] =
                FileEntry(EncodeText(content, plat),
                          IF Exists(r.fs, p) THEN r.fs[p].gen ELSE g)])

\* a read in binary mode: no newline translation
read_file_binary(f, p) == f[p].content

\* read_file(filepath): the text of a file that exists
read_file(f, p) == DecodeText(f[p].content)

\* the tree as a directory listing shows it: kinds and contents
Tree(f) == [p \in AllPaths |-> [kind |-> f[p].kind, content |-> f[p].content]]

----------------------------------------------------------------------------
(* Logging: a record is a level, a message and the path or command it names *)

Info(m, a)  == [level |-> "INFO", msg |-> m, arg |-> a]
Error(m, a) == [level |-> "ERROR", msg |-> m, arg |-> a]

----------------------------------------------------------------------------
(* The script *)

Init ==
    /\ pc = "main"
    /\ run = 1
    /\ configExists \in BOOLEAN
    /\ configFile \in (IF configExists THEN Configs ELSE {NoConfig})
    /\ platform \in {"nt", "posix"}
    /\ fs \in PriorTrees
    /\ before = fs
    /\ config = NoConfig
    /\ project_name = ""
    /\ venv_dir = ""
    /\ log = <<>>
    /\ issued = <<>>
    /\ err = "none"
    /\ exitCode = 0
    /\ setupTrees = <<>>

\* load_config ending the process with status 0 when the file is missing
load_config_exit0 ==
    /\ pc = "main"
    /\ IF ~configExists
       THEN /\ log' = Append(log, Error("Configuration file not found", <<"config.yaml">>))
            /\ exitCode' = 0
            /\ pc' = "exited"
            /\ UNCHANGED config
       ELSE /\ config' = configFile
            /\ pc' = "loaded"
            /\ UNCHANGED <<log, exitCode>>
    /\ UNCHANGED <<run, configExists, configFile, platform, fs, before, project_name,
                   venv_dir, issued, err, setupTrees>>

\* load_config(args.config_file)
load_config ==
    /\ pc = "main"
    /\ IF ~configExists
       THEN /\ log' = Append(log, Error("Configuration file not found", <<"config.yaml">>))
            /\ exitCode' = 1
            /\ pc' = "exited"
            /\ UNCHANGED config
       ELSE /\ config' = configFile
            /\ pc' = "loaded"
            /\ UNCHANGED <<log, exitCode>>
    /\ UNCHANGED <<run, configExists, configFile, platform, fs, before, project_name,
                   venv_dir, issued, err, setupTrees>>

\* __main__ hands the loaded configuration to initialize_project
call_initialize_project ==
    /\ pc = "loaded"
    /\ pc' = "initialize_project"
    /\ UNCHANGED <<run, configExists, configFile, platform, fs, before, config, project_name,
                   venv_dir, log, issued, err, exitCode, setupTrees>>

\* initialize_project, lines 182-187: the lookups before any action
RECURSIVE AllPresent(_, _)
AllPresent(c, ks) ==
    ks = <<>> \/ (HasKey(c, Head(ks)) /\ AllPresent(c, Tail(ks)))

\* all four fields looked up on entry
EarlyLookups_all == <<"project_name", "project_dir", "venv_dir", "requirements_file">>

EarlyLookups == <<"project_name", "project_dir", "venv_dir">>

\* the lookups on entry with venv_dir defaulted instead of required
initialize_lookups_default_venv ==
    /\ pc = "initialize_project"
    /\ IF AllPresent(config, <<"project_name", "project_dir">>)
       THEN /\ project_name' = config["project_name"]
            /\ venv_dir' = IF HasKey(config, "venv_dir") THEN config["venv_dir"] ELSE "venv"
            /\ log' = Append(log, Info("Initializing project...", <<>>))
            /\ pc' = "create_directories"
            /\ UNCHANGED err
       ELSE /\ err' = "KeyError"
            /\ pc' = "raised"
            /\ project_name' = IF HasKey(config, "project_name")
                               THEN config["project_name"] ELSE project_name
            /\ UNCHANGED <<venv_dir, log>>
    /\ UNCHANGED <<run, configExists, configFile, platform, fs, before, config, issued,
                   exitCode, setupTrees>>

initialize_lookups ==
    /\ pc = "initialize_project"
    /\ IF AllPresent(config, EarlyLookups)
       THEN /\ project_name' = config["project_name"]
            /\ venv_dir' = config["venv_dir"]
            /\ log' = Append(log, Info("Initializing project...", <<>>))
            /\ pc' = "create_directories"
            /\ UNCHANGED err
       ELSE /\ err' = "KeyError"
            /\ pc' = "raised"
            /\ project_name' = IF HasKey(config, "project_name")
                               THEN config["project_name"] ELSE project_name
            /\ UNCHANGED <<venv_dir, log>>
    /\ UNCHANGED <<run, configExists, configFile, platform, fs, before, config, issued,
                   exitCode, setupTrees>>

\* create_directories, lines 43-53: the destructive reset
reset_directories ==
    /\ pc = "create_directories"
    /\ LET existed == Exists(fs, <<>>)
           cleared == IF existed THEN rmtree(fs, <<>>) ELSE fs
           r       == mkdir_all(mkdir_parents(Ok(cleared), run), Subdirs, run)
           removal == IF existed
                      THEN <<Info("Removing existing project directory", <<>>)>>
                      ELSE <<>>
       IN  /\ fs' = r.fs
           /\ IF r.err = "none"
              THEN /\ log' = log \o removal
                               \o <<Info("Created project directory structure", <<>>)>>
                   /\ pc' = "write_templates"
                   /\ UNCHANGED err
              ELSE /\ log' = log \o removal
                   /\ err' = r.err
                   /\ pc' = "raised"
    /\ UNCHANGED <<run, configExists, configFile, platform, before, config,
                   project_name, venv_dir, issued, exitCode, setupTrees>>

\* create_directories, lines 171-175: template_files, in insertion order
template_files ==
    << [path |-> <<"templates", SetupTemplateName>>, content |-> setup_content],
       [path |-> <<"templates", SpecTemplateName>>, content |-> redzer_spec_content],
       [path |-> <<"templates", InstallerTemplateName>>,
        content |-> redzer_installer_content] >>

\* the files of ts written in order, up to the first that raises
RECURSIVE write_all(_, _, _, _)
write_all(r, ts, plat, g) ==
    IF ts = <<>> THEN r
    ELSE write_all(write_file(r, Head(ts).path, Head(ts).content, plat, g),
                   Tail(ts), plat, g)

\* 'Created <path>' for each file of ts that f holds
RECURSIVE created_log(_, _)
created_log(f, ts) ==
    IF ts = <<>> THEN <<>>
    ELSE IF f[Head(ts).path].kind = "file"
         THEN <<Info("Created", Head(ts).path)>> \o created_log(f, Tail(ts))
         ELSE <<>>

\* create_directories, lines 177-178, and its return
write_templates ==
    /\ pc = "write_templates"
    /\ LET r == write_all(Ok(fs), template_files, platform, run)
       IN  /\ fs' = r.fs
           /\ log' = log \o created_log(r.fs, template_files)
           /\ IF r.err = "none"
              THEN /\ setupTrees' = Append(setupTrees, Tree(r.fs))
                   /\ pc' = "write_setup"
                   /\ UNCHANGED err
              ELSE /\ err' = r.err
                   /\ pc' = "raised"
                   /\ UNCHANGED setupTrees
    /\ UNCHANGED <<run, configExists, configFile, platform, before, config,
                   project_name, venv_dir, issued, exitCode>>

\* one template instantiation: read_file(template_dir / t), write_file(project_dir / o)
instantiate(t, o, next) ==
    IF fs[<<"templates", t>>].kind # "file"
    THEN /\ err' = "FileNotFoundError"
         /\ pc' = "raised"
         /\ UNCHANGED <<fs, log>>
    ELSE LET content == read_file(fs, <<"templates", t>>)
             r       == write_file(Ok(fs), <<o>>, content, platform, run)
         IN  /\ fs' = r.fs
             /\ IF r.err = "none"
                THEN /\ log' = Append(log, Info("Created", <<o>>))
                     /\ pc' = next
                     /\ UNCHANGED err
                ELSE /\ err' = r.err
                     /\ pc' = "raised"
                     /\ UNCHANGED log

\* initialize_project, lines 191-193
write_setup ==
    /\ pc = "write_setup"
    /\ instantiate(SetupTemplateName, SetupName, "write_spec")
    /\ UNCHANGED <<run, configExists, configFile, platform, before, config,
                   project_name, venv_dir, issued, exitCode, setupTrees>>

\* initialize_project, lines 196-198
write_spec ==
    /\ pc = "write_spec"
    /\ instantiate(SpecTemplateName, SpecName, "write_inno_setup")
    /\ UNCHANGED <<run, configExists, configFile, platform, before, config,
                   project_name, venv_dir, issued, exitCode, setupTrees>>

\* initialize_project, lines 201-203
write_inno_setup ==
    /\ pc = "write_inno_setup"
    /\ instantiate(InstallerTemplateName, InstallerName, "create_venv")
    /\ UNCHANGED <<run, configExists, configFile, platform, before, config,
                   project_name, venv_dir, issued, exitCode, setupTrees>>

\* the five external commands, by the tool each invokes
Commands == <<"venv", "pip_install", "pyinstaller_install", "pyinstaller", "ISCC">>

\* what 'python -m venv <venv_dir>' leaves below the project directory: the
\* environment directory when it succeeds, possibly when it fails
command_effect(f, cmd, made, g) ==
    IF cmd = "venv" /\ made /\ ~Exists(f, <<venv_dir>>)
    THEN [f EXCEPT ![<<venv_dir>>] = DirEntry(g)]
    ELSE f

\* a run_command that issues the command again after a failure
run_command_retry(cmd, next) ==
    \E rc \in {0, 1} :
        /\ issued' = Append(issued, [cmd |-> cmd, rc |-> rc])
        /\ fs' = command_effect(fs, cmd, rc = 0, run)
        /\ log' = log \o (IF rc = 0
                          THEN <<Info("Command succeeded", <<cmd>>), Info("stdout", <<cmd>>)>>
                          ELSE <<Error("Command failed", <<cmd>>), Error("stderr", <<cmd>>)>>)
        /\ pc' = IF rc = 0 THEN next ELSE pc
        /\ UNCHANGED err

\* run_command(command): rc is the exit status of the command, utf8 whether
\* the captured stream that gets decoded (stdout on success, stderr on
\* failure) is valid UTF-8
run_command(cmd, next) ==
    \E rc \in {0, 1}, utf8 \in BOOLEAN, made \in BOOLEAN :
        /\ made = (cmd = "venv" /\ (rc = 0 \/ made))
        /\ issued' = Append(issued, [cmd |-> cmd, rc |-> rc])
        /\ fs' = command_effect(fs, cmd, made, run)
        /\ LET report == IF rc = 0 THEN Info("Command succeeded", <<cmd>>)
                                   ELSE Error("Command failed", <<cmd>>)
               stream == IF rc = 0 THEN Info("stdout", <<cmd>>) ELSE Error("stderr", <<cmd>>)
           IN  IF utf8
               THEN /\ log' = log \o <<report, stream>>
                    /\ pc' = next
                    /\ UNCHANGED err
               ELSE /\ log' = Append(log, report)
                    /\ err' = "UnicodeDecodeError"
                    /\ pc' = "raised"

\* initialize_project, line 206
create_venv ==
    /\ pc = "create_venv"
    /\ run_command("venv", "build_commands")
    /\ UNCHANGED <<run, configExists, configFile, platform, before, config,
                   project_name, venv_dir, exitCode, setupTrees>>

\* initialize_project, lines 209-214: the command lines of the installs
build_commands ==
    /\ pc = "build_commands"
    /\ IF HasKey(config, "requirements_file")
       THEN /\ pc' = "pip_install"
            /\ UNCHANGED err
       ELSE /\ err' = "KeyError"
            /\ pc' = "raised"
    /\ UNCHANGED <<run, configExists, configFile, platform, fs, before, config,
                   project_name, venv_dir, log, issued, exitCode, setupTrees>>

\* initialize_project, line 216
pip_install ==
    /\ pc = "pip_install"
    /\ run_command("pip_install", "pyinstaller_install")
    /\ UNCHANGED <<run, configExists, configFile, platform, before, config,
                   project_name, venv_dir, exitCode, setupTrees>>

\* initialize_project, line 217
pyinstaller_install ==
    /\ pc = "pyinstaller_install"
    /\ run_command("pyinstaller_install", "pyinstaller")
    /\ UNCHANGED <<run, configExists, configFile, platform, before, config,
                   project_name, venv_dir, exitCode, setupTrees>>

\* initialize_project, line 220
package ==
    /\ pc = "pyinstaller"
    /\ run_command("pyinstaller", "ISCC")
    /\ UNCHANGED <<run, configExists, configFile, platform, before, config,
                   project_name, venv_dir, exitCode, setupTrees>>

\* initialize_project, line 223
create_installer ==
    /\ pc = "ISCC"
    /\ run_command("ISCC", "complete")
    /\ UNCHANGED <<run, configExists, configFile, platform, before, config,
                   project_name, venv_dir, exitCode, setupTrees>>

\* initialize_project, line 225, and its return
complete ==
    /\ pc = "complete"
    /\ log' = Append(log, Info("Project initialization complete", <<>>))
    /\ pc' = "done"
    /\ UNCHANGED <<run, configExists, configFile, platform, fs, before, config,
                   project_name, venv_dir, issued, err, exitCode, setupTrees>>

Ended == pc \in {"done", "raised", "exited"}

\* the script is invoked again with the same arguments on the same target
invoke_again ==
    /\ Ended
    /\ run < MaxRuns
    /\ run' = run + 1
    /\ pc' = "main"
    /\ before' = fs
    /\ config' = NoConfig
    /\ project_name' = ""
    /\ venv_dir' = ""
    /\ log' = <<>>
    /\ issued' = <<>>
    /\ err' = "none"
    /\ exitCode' = 0
    /\ UNCHANGED <<configExists, configFile, platform, fs, setupTrees>>

Next ==
    \/ load_config
    \/ call_initialize_project
    \/ initialize_lookups
    \/ reset_directories
    \/ write_templates
    \/ write_setup
    \/ write_spec
    \/ write_inno_setup
    \/ create_venv
    \/ build_commands
    \/ pip_install
    \/ pyinstaller_install
    \/ package
    \/ create_installer
    \/ complete
    \/ invoke_again

Spec == Init /\ [][Next]_vars

----------------------------------------------------------------------------
(* Properties *)

FullConfig == configExists /\ Keys \subseteq DOMAIN configFile

IssuedCommands == [i \in DOMAIN issued |-> issued[i].cmd]

FiveCommands == <<"venv", "pip_install", "pyinstaller_install", "pyinstaller", "ISCC">>

\* create_directories has just returned
SetupComplete == pc = "write_setup"

\* the third root output has been written
InstantiationDone == pc = "create_venv" \/ issued # <<>>

FreshFile(p) == fs[p].kind = "file" /\ fs[p].gen = run
FreshDir(p)  == fs[p].kind = "dir" /\ fs[p].gen = run

\* C1: with a configuration that has all four fields, whatever the five
\* commands return, a run ends only after all five commands have been passed
\* to run_command, in order: no failing command makes a later one be skipped.
C1_EveryCommandAttempted ==
    (FullConfig /\ pc \in {"done", "raised"}) => IssuedCommands = FiveCommands

\* C2: with a configuration path that does not exist the process goes from
\* its start straight to exit with a non-zero status, having logged one
\* error, and the tree is what it was: nothing deleted, created or written,
\* no command run.
C2_MissingConfigIsFatalAndHarmless ==
    ~configExists =>
        /\ pc \in {"main", "exited"}
        /\ fs = before
        /\ issued = <<>>
        /\ pc = "exited" =>
              /\ exitCode # 0
              /\ log = <<Error("Configuration file not found", <<"config.yaml">>)>>

C2_Witness ==
    /\ ~configExists
    /\ pc = "exited"
    /\ Exists(fs, <<"stray.txt">>)

\* C3: when create_directories returns, every entry of the tree was created
\* by this call (nothing that was there before is left, whatever the target
\* held), and every call of it on the same target leaves the same tree.
C3_IdempotentDestructiveReset ==
    /\ SetupComplete => \A p \in AllPaths : Exists(fs, p) => fs[p].gen = run
    /\ \A i, j \in DOMAIN setupTrees : setupTrees[i] = setupTrees[j]

C3_Witness ==
    /\ SetupComplete
    /\ run = 2
    /\ Len(setupTrees) = 2
    /\ Exists(before, <<"setup.py">>)
    /\ Exists(before, <<"venv">>)

\* C4: once the three root outputs are written, and until the run ends, each
\* root output is a file whose bytes are the bytes of its template.
C4_OutputsEqualTemplates ==
    InstantiationDone =>
        \A pair \in { <<"setup.py", "setup_template.py">>,
                      <<"redzer.spec", "redzer_template.spec">>,
                      <<"redzer_installer.iss", "redzer_installer_template.iss">> } :
            /\ fs[<<pair[1]>>].kind = "file"
            /\ fs[<<"templates", pair[2]>>].kind = "file"
            /\ fs[<<pair[1]>>].content = fs[<<"templates", pair[2]>>].content

C4_Witness ==
    /\ pc = "done"
    /\ platform = "nt"
    /\ fs[<<"setup.py">>].content = <<"s", "CR", "LF", "s", "CR", "LF">>

\* C5: with a configuration that lacks venv_dir the run never gets past the
\* lookups on entry of initialize_project: it ends with a KeyError, and the
\* tree is untouched and no command has been run.
C5_MissingVenvDirFailsBeforeReset ==
    (configExists /\ ~HasKey(configFile, "venv_dir")) =>
        /\ pc \in {"main", "loaded", "initialize_project", "raised"}
        /\ pc = "raised" => err = "KeyError"
        /\ fs = before
        /\ issued = <<>>

C5_Witness ==
    /\ configExists
    /\ DOMAIN configFile = {"project_name", "project_dir", "requirements_file"}
    /\ pc = "raised"
    /\ err = "KeyError"
    /\ Exists(fs, <<"stray.txt">>)

\* C6: when create_directories returns, the project directory is a directory
\* whose subdirectories are exactly modules, services, caching, tests and
\* templates, whatever the target held; when the target did not exist no
\* removal took place; and no filesystem call of the run raises.
C6_ExactlyFiveSubdirectories ==
    /\ SetupComplete =>
          /\ fs[<<>>].kind = "dir"
          /\ { p \in AllPaths : Len(p) = 1 /\ fs[p].kind = "dir" }
               = { <<"modules">>, <<"services">>, <<"caching">>, <<"tests">>,
                   <<"templates">> }
          /\ ~Exists(before, <<>>) =>
                \A i \in DOMAIN log : log[i].msg # "Removing existing project directory"
    /\ err \in {"none", "KeyError", "UnicodeDecodeError"}

C6_Witness ==
    /\ SetupComplete
    /\ ~Exists(before, <<>>)

\* C7 as stated: once the root outputs are written, the build-spec and
\* installer-script templates and outputs exist under the names derived from
\* the configured project name.
C7_NamesFollowProjectName ==
    InstantiationDone =>
        /\ FreshFile(<<"templates", "setup_template.py">>)
        /\ FreshFile(<<"templates", NamedSpecTemplate(project_name)>>)
        /\ FreshFile(<<"templates", NamedInstallerTemplate(project_name)>>)
        /\ FreshFile(<<"setup.py">>)
        /\ FreshFile(<<NamedSpec(project_name)>>)
        /\ FreshFile(<<NamedInstaller(project_name)>>)

\* C7 as amended: once the root outputs are written, the six files exist
\* under fixed names (the build-spec and installer-script files are
\* redzer_*), whatever the configured project name; the names derived from
\* the project name exist only when the project name is redzer.
C7_NamesAreFixed ==
    InstantiationDone =>
        /\ FreshFile(<<"templates", "setup_template.py">>)
        /\ FreshFile(<<"templates", "redzer_template.spec">>)
        /\ FreshFile(<<"templates", "redzer_installer_template.iss">>)
        /\ FreshFile(<<"setup.py">>)
        /\ FreshFile(<<"redzer.spec">>)
        /\ FreshFile(<<"redzer_installer.iss">>)
        /\ project_name # "redzer" =>
              /\ ~Exists(fs, <<"templates", NamedSpecTemplate(project_name)>>)
              /\ ~Exists(fs, <<"templates", NamedInstallerTemplate(project_name)>>)
              /\ ~Exists(fs, <<NamedSpec(project_name)>>)
              /\ ~Exists(fs, <<NamedInstaller(project_name)>>)

C7_Witness ==
    /\ pc = "done"
    /\ project_name = "other"

\* the steps a log shows: the directory structure, each file written, each
\* command run
IsStep(e) ==
    e.msg \in {"Created project directory structure", "Created",
               "Command succeeded", "Command failed"}

StepOf(e) ==
    [step |-> CASE e.msg = "Created project directory structure" -> "reset"
                [] e.msg = "Created" -> "write"
                [] OTHER -> "run",
     arg  |-> e.arg]

Steps(l) == [i \in DOMAIN SelectSeq(l, IsStep) |-> StepOf(SelectSeq(l, IsStep)[i])]

\* C8: a run that completes has done, in this order and once each: the
\* directory reset, the three template writes, the three root-output writes,
\* and the five commands (environment creation, dependency install, packager
\* install, build, installer compilation); and at no point has a command been
\* issued without the three root outputs written.
C8_FixedStepOrder ==
    /\ pc = "done" =>
          /\ Steps(log) =
               << [step |-> "reset", arg |-> <<>>],
                  [step |-> "write", arg |-> <<"templates", "setup_template.py">>],
                  [step |-> "write", arg |-> <<"templates", "redzer_template.spec">>],
                  [step |-> "write", arg |-> <<"templates", "redzer_installer_template.iss">>],
                  [step |-> "write", arg |-> <<"setup.py">>],
                  [step |-> "write", arg |-> <<"redzer.spec">>],
                  [step |-> "write", arg |-> <<"redzer_installer.iss">>],
                  [step |-> "run", arg |-> <<"venv">>],
                  [step |-> "run", arg |-> <<"pip_install">>],
                  [step |-> "run", arg |-> <<"pyinstaller_install">>],
                  [step |-> "run", arg |-> <<"pyinstaller">>],
                  [step |-> "run", arg |-> <<"ISCC">>] >>
          /\ IssuedCommands = FiveCommands
    /\ issued # <<>> =>
          /\ FreshFile(<<"setup.py">>)
          /\ FreshFile(<<"redzer.spec">>)
          /\ FreshFile(<<"redzer_installer.iss">>)

C8_Witness ==
    /\ pc = "done"
    /\ issued[1].rc = 1
    /\ issued[4].rc = 1
    /\ Exists(before, <<>>)

\* C9: a run whose configuration file exists never ends abnormally: when it
\* has ended, it has reached the end of initialize_project.
C9_OnlyMissingConfigIsFatal ==
    (configExists /\ pc \in {"done", "raised", "exited"}) => pc = "done"

RequirementsFileMissing ==
    /\ configExists
    /\ DOMAIN configFile = {"project_name", "project_dir", "venv_dir"}

====
